---- MODULE Spec2Model ----
(***************************************************************************)
(* Model of PartA_Mortgage/mortgage.py (class MortgagePayment) and of the  *)
(* part of mortgage_main.py that consumes its schedules.                   *)
(*                                                                         *)
(* Number representation.  The program computes in binary floating point.  *)
(* Here every quantity is a scaled integer:                                *)
(*   - a money amount (principal, payment, balance, interest) is a number  *)
(*     of micro-dollars (MoneyScale units per dollar), so the loop's       *)
(*     epsilon 1e-6 is exactly one unit and one cent is Cent units;        *)
(*   - a rate (j, EAR, periodic rate, annuity factor) is a number of       *)
(*     1/RateScale units.                                                  *)
(* Products and quotients are taken exactly and truncated to the unit      *)
(* (MulDiv), powers are taken by square-and-multiply (Pow) and the         *)
(* fractional power 1/p by the matching integer root (Root).               *)
(* round(x, 2) is rounding to the nearest cent, ties to the even cent.     *)
(*                                                                         *)
(* Accuracy.  Truncation keeps a rate to about 1e-8 and an amount to about *)
(* 1e-6 dollars.  On every input of the sets below the six payments and    *)
(* the number of rows of every schedule are those the program returns;     *)
(* a displayed (2-decimal) balance may differ by one cent in a row whose   *)
(* unrounded balance lies within that error of a half cent.                *)
(*                                                                         *)
(* Domain.  Principals are >= 0 and amortization years >= 1: a negative    *)
(* amount or a zero amortization (a ZeroDivisionError in                   *)
(* _annuity_payment) is outside the model.  One method call is made per    *)
(* behaviour.                                                              *)
(***************************************************************************)
EXTENDS Integers, Sequences, FiniteSets, TLC

MoneyScale == 10 ^ 6
RateScale == 10 ^ 8
Cent == MoneyScale \div 100

\* ---------------------------------------------------------------- bounds
MaxYears == 2

\* ------------------------------------------------------------ arithmetic
Min(a, b) == IF a < b THEN a ELSE b
Max(a, b) == IF a > b THEN a ELSE b

\* a * b for a rate b and a money amount or rate a: floor(a*b / RateScale),
\* taken exactly from the half-width limbs of a and b so that no intermediate
\* product leaves the checker's integer range.
Limb == 10 ^ 4
RMul(a, b) ==
    LET a1 == a \div Limb
        a0 == a % Limb
        b1 == b \div Limb
        b0 == b % Limb
        m  == a1 * b0 + a0 * b1
    IN  a1 * b1 + (m \div Limb) + (((m % Limb) * Limb + a0 * b0) \div RateScale)

\* x / y for two rates: floor(x * RateScale / y), by long division, one
\* decimal digit of the quotient's fraction per step.
RECURSIVE LongDiv(_, _, _)
LongDiv(r, y, digits) ==
    IF digits = 0 THEN 0
    ELSE ((r * 10) \div y) * (10 ^ (digits - 1))
         + LongDiv((r * 10) % y, y, digits - 1)

RDiv(x, y) == (x \div y) * RateScale + LongDiv(x % y, y, 8)

\* x ** n for a rate x and an integer n >= 0 (float pow with integral exponent)
RECURSIVE Pow(_, _)
Pow(x, n) ==
    IF n = 0 THEN RateScale
    ELSE LET h == Pow(x, n \div 2)
             sq == RMul(h, h)
         IN  IF n % 2 = 1 THEN RMul(sq, x) ELSE sq

\* x ** (1 / p) for a rate x >= 1: the largest y in lo..hi with y ** p <= x
RECURSIVE RootSearch(_, _, _, _)
RootSearch(x, p, lo, hi) ==
    IF lo >= hi THEN lo
    ELSE LET mid == (lo + hi + 1) \div 2
         IN  IF Pow(mid, p) <= x THEN RootSearch(x, p, mid, hi)
                                 ELSE RootSearch(x, p, lo, mid - 1)

Root(x, p) == RootSearch(x, p, RateScale, x)

\* round(x, 2) of a non-negative money amount: nearest cent, ties to even
Round2(x) ==
    LET q == x \div Cent
        r == x % Cent
    IN  IF 2 * r < Cent THEN q * Cent
        ELSE IF 2 * r > Cent THEN (q + 1) * Cent
        ELSE IF q % 2 = 0 THEN q * Cent ELSE (q + 1) * Cent

\* ------------------------------------------------------- program constants
\* the loop's epsilon 1e-6 (mortgage.py:74), in money units
Eps == MoneyScale \div (10 ^ 6)
\* the iteration cap's margin (mortgage.py:74)
CapMargin == 2
\* payments per year and dictionary key of the six schedules, in the order
\* schedules() builds them (mortgage.py:101-106)
Frequencies == <<12, 24, 26, 52, 26, 52>>
Names == <<"monthly", "semi-monthly", "bi-weekly", "weekly",
           "accelerated bi-weekly", "accelerated weekly">>

\* ------------------------------------------------------------ input sets
\* quoted annual rates in percent, as rates
RateChoices == {0, 5 * RateScale}
\* principals handed to payments() and schedules(): none, ten cents, one
\* dollar, a hundred and a thousand dollars
PrincipalChoices == {0, 10 * Cent, MoneyScale, 100 * MoneyScale, 1000 * MoneyScale}
\* arguments of a direct _schedule call
RawPrincipalChoices == {100 * MoneyScale}
RawPaymentChoices == {0, 30 * Cent, 10 * MoneyScale}
YearChoices == 1..MaxYears
\* an optional int: <<>> is None
Optional(S) == {<<>>} \cup {<<v>> : v \in S}

VARIABLES
    quoted_rate_percent, amort_years, term_years,   \* the MortgagePayment object
    pc,                \* "idle", "loop" (inside _schedule's while), "done"
    call,              \* the method called: "none", "payments", "schedules", "_schedule"
    principal,         \* the principal argument of the call
    pmts,              \* the tuple payments() returned, <<>> before
    years_limit,       \* _schedule's years_limit argument
    idx,               \* which of the six schedules is being built (0: none)
    result,            \* the schedules returned so far, in Names order
    payments_per_year, payment_amount,              \* _schedule's arguments
    i, nmax, bal, k, out,                           \* _schedule's locals
    start, interest, principal_comp, pay_eff,       \* the loop body's locals
    diagnostics        \* what the call surfaced besides its return value

obj == <<quoted_rate_percent, amort_years, term_years>>
args == <<payments_per_year, payment_amount, years_limit>>
locals == <<i, nmax, bal, k, out>>
body == <<start, interest, principal_comp, pay_eff>>
vars == <<obj, pc, call, principal, pmts, idx, result, args, locals, body,
          diagnostics>>

\* ------------------------------------------------------- MortgagePayment
\* __init__: term_years defaults to amort_years
TermOrDefault(term, amort) == IF term = <<>> THEN amort ELSE term[1]

EarFromSemiannual(quoted) ==
    LET j == quoted \div 100
        h == RateScale + j \div 2
    IN  RMul(h, h) - RateScale

PeriodicRate(quoted, ppy) ==
    Root(RateScale + EarFromSemiannual(quoted), ppy) - RateScale

AnnuityPayment(p, r, n) ==
    IF r = 0 THEN p \div n
    ELSE RMul(p, RDiv(r, RateScale - RDiv(RateScale, Pow(RateScale + r, n))))

\* the unrounded local `monthly` of payments()
MonthlyRaw(quoted, amort, p) ==
    AnnuityPayment(p, PeriodicRate(quoted, 12), amort * 12)

\* payments() deriving the accelerated amounts from the rounded monthly amount
PaymentsAccelFromRounded(quoted, amort, p) ==
    LET monthly      == MonthlyRaw(quoted, amort, p)
        semi_monthly == AnnuityPayment(p, PeriodicRate(quoted, 24), amort * 24)
        bi_weekly    == AnnuityPayment(p, PeriodicRate(quoted, 26), amort * 26)
        weekly       == AnnuityPayment(p, PeriodicRate(quoted, 52), amort * 52)
        accel_bi_weekly == Round2(monthly) \div 2
        accel_weekly    == Round2(monthly) \div 4
    IN  <<Round2(monthly), Round2(semi_monthly), Round2(bi_weekly),
          Round2(weekly), Round2(accel_bi_weekly), Round2(accel_weekly)>>

\* payments() returning its amounts without rounding them
PaymentsUnrounded(quoted, amort, p) ==
    LET monthly      == MonthlyRaw(quoted, amort, p)
        semi_monthly == AnnuityPayment(p, PeriodicRate(quoted, 24), amort * 24)
        bi_weekly    == AnnuityPayment(p, PeriodicRate(quoted, 26), amort * 26)
        weekly       == AnnuityPayment(p, PeriodicRate(quoted, 52), amort * 52)
    IN  <<monthly, semi_monthly, bi_weekly, weekly, monthly \div 2,
          monthly \div 4>>

Payments(quoted, amort, p) ==
    LET monthly      == MonthlyRaw(quoted, amort, p)
        semi_monthly == AnnuityPayment(p, PeriodicRate(quoted, 24), amort * 24)
        bi_weekly    == AnnuityPayment(p, PeriodicRate(quoted, 26), amort * 26)
        weekly       == AnnuityPayment(p, PeriodicRate(quoted, 52), amort * 52)
        accel_bi_weekly == monthly \div 2
        accel_weekly    == monthly \div 4
    IN  <<Round2(monthly), Round2(semi_monthly), Round2(bi_weekly),
          Round2(weekly), Round2(accel_bi_weekly), Round2(accel_weekly)>>

\* limit_years of _schedule and years_limit of schedules()
LimitYears(years, amort) == Max(1, Min(years, amort))

\* the while condition without the balance test
LoopCondNoBalance(b, kk, n) == kk < n + CapMargin

\* the while condition without the iteration cap
LoopCondNoCap(b, kk, n) == b > Eps

\* the while condition of _schedule
LoopCond(b, kk, n) == b > Eps /\ kk < n + CapMargin

\* the loop body without the final-period clamp
IterateNoClamp(s, rate, pay) ==
    LET int == RMul(s, rate)
    IN  [interest |-> int, principal_comp |-> pay - int, pay_eff |-> pay,
         bal |-> s - (pay - int)]

\* one pass of the loop body on starting balance s: the locals it leaves
Iterate(s, rate, pay) ==
    LET int == RMul(s, rate)
        pcomp == pay - int
    IN  IF pcomp > s
        THEN [interest |-> int, principal_comp |-> s, pay_eff |-> int + s,
              bal |-> s - s]
        ELSE [interest |-> int, principal_comp |-> pcomp, pay_eff |-> pay,
              bal |-> s - pcomp]

Row(kk, s, it) ==
    [Period |-> kk, StartingBalance |-> Round2(s),
     Interest |-> Round2(it.interest), Payment |-> Round2(it.pay_eff),
     EndingBalance |-> Round2(it.bal)]

\* entry of _schedule(p, ppy, pay, yl): arguments and locals before the loop
EnterSchedule(p, ppy, pay, yl) ==
    /\ payments_per_year' = ppy
    /\ payment_amount' = pay
    /\ years_limit' = yl
    /\ i' = PeriodicRate(quoted_rate_percent, ppy)
    /\ nmax' = LimitYears(yl, amort_years) * ppy
    /\ bal' = p
    /\ k' = 0
    /\ out' = <<>>
    /\ start' = 0 /\ interest' = 0 /\ principal_comp' = 0 /\ pay_eff' = 0

\* ------------------------------------------------------------------ Init
Init ==
    /\ quoted_rate_percent \in RateChoices
    /\ amort_years \in YearChoices
    /\ \E t \in Optional(YearChoices) :
           term_years = TermOrDefault(t, amort_years)
    /\ pc = "idle" /\ call = "none" /\ principal = 0
    /\ pmts = <<>> /\ idx = 0 /\ result = <<>>
    /\ payments_per_year = 0 /\ payment_amount = 0 /\ years_limit = 0
    /\ i = 0 /\ nmax = 0 /\ bal = 0 /\ k = 0 /\ out = <<>>
    /\ start = 0 /\ interest = 0 /\ principal_comp = 0 /\ pay_eff = 0
    /\ diagnostics = <<>>

\* --------------------------------------------------------------- actions
\* payments(principal)
CallPayments ==
    /\ pc = "idle"
    /\ \E p \in PrincipalChoices :
        /\ principal' = p
        /\ pmts' = Payments(quoted_rate_percent, amort_years, p)
    /\ call' = "payments"
    /\ pc' = "done"
    /\ UNCHANGED <<obj, idx, result, args, locals, body, diagnostics>>

\* schedules(principal, years) up to the entry of the first _schedule call
CallSchedules ==
    /\ pc = "idle"
    /\ \E p \in PrincipalChoices, years \in Optional(YearChoices) :
        LET yl == LimitYears(TermOrDefault(years, term_years), amort_years)
            ps == Payments(quoted_rate_percent, amort_years, p)
        IN  /\ principal' = p
            /\ pmts' = ps
            /\ EnterSchedule(p, Frequencies[1], ps[1], yl)
    /\ call' = "schedules"
    /\ idx' = 1
    /\ pc' = "loop"
    /\ UNCHANGED <<obj, result, diagnostics>>

\* a direct call _schedule(principal, payments_per_year, payment_amount,
\* years_limit)
CallScheduleRaw ==
    /\ pc = "idle"
    /\ \E p \in RawPrincipalChoices, f \in 1..4, pay \in RawPaymentChoices,
          yl \in 0..(MaxYears + 1) :
        /\ principal' = p
        /\ EnterSchedule(p, Frequencies[f], pay, yl)
    /\ call' = "_schedule"
    /\ pc' = "loop"
    /\ UNCHANGED <<obj, pmts, idx, result, diagnostics>>

\* one iteration of the while loop
LoopStep ==
    /\ pc = "loop"
    /\ LoopCond(bal, k, nmax)
    /\ LET it == Iterate(bal, i, payment_amount)
       IN  /\ k' = k + 1
           /\ start' = bal
           /\ interest' = it.interest
           /\ principal_comp' = it.principal_comp
           /\ pay_eff' = it.pay_eff
           /\ bal' = it.bal
           /\ out' = Append(out, Row(k + 1, bal, it))
    /\ UNCHANGED <<obj, pc, call, principal, pmts, idx, result, args, i, nmax,
                   diagnostics>>

\* the loop ends and _schedule returns its DataFrame; inside schedules() the
\* next of the six _schedule calls is entered
ScheduleReturn ==
    /\ pc = "loop"
    /\ ~LoopCond(bal, k, nmax)
    /\ result' = Append(result, out)
    /\ IF call = "schedules" /\ idx < Len(Frequencies)
       THEN /\ idx' = idx + 1
            /\ EnterSchedule(principal, Frequencies[idx + 1], pmts[idx + 1],
                             years_limit)
            /\ pc' = "loop"
       ELSE /\ pc' = "done"
            /\ UNCHANGED <<idx, args, locals, body>>
    /\ UNCHANGED <<obj, call, principal, pmts, diagnostics>>

Next == CallPayments \/ CallSchedules \/ CallScheduleRaw \/ LoopStep
        \/ ScheduleReturn

Spec == Init /\ [][Next]_vars

\* mortgage_main.run_mortgage: the figure printed as the outstanding balance
\* after the term, the last Ending Balance of the monthly schedule
MonthlyTermBalance == result[1][Len(result[1])].EndingBalance

\* ===================================================================
\* Properties
\* ===================================================================
Last(s) == s[Len(s)]

\* the rows of the monthly schedule built so far
MonthlyRows ==
    IF Len(result) >= 1 THEN result[1] ELSE IF idx = 1 THEN out ELSE <<>>

\* principal reduction shown by a row
Reduction(row) == row.StartingBalance - row.EndingBalance

\* --- round(c/100 / d, 2) as the floating-point program evaluates it when
\* c/100 is a 2-decimal float (c whole cents) and d is 2 or 4.  The quotient
\* is a decimal tie exactly when it ends in half a cent; the double nearest
\* to c/100 then lies above or below c/100 and decides the direction.  With
\* 2^52 <= c * 2^e / 100 < 2^53 the double is round(c * 2^e / 100) / 2^e, so
\* it lies below when (c * 2^e) mod 100 < 50 and above when > 50.
RECURSIVE Pow2Mod100(_)
Pow2Mod100(e) == IF e = 0 THEN 1 ELSE (2 * Pow2Mod100(e - 1)) % 100

RECURSIVE ShiftUp(_, _)
ShiftUp(c, sh) == IF c * (2 ^ sh) >= 100 THEN sh ELSE ShiftUp(c, sh + 1)

RECURSIVE ShiftDown(_, _)
ShiftDown(c, sh) ==
    IF 100 * (2 ^ (sh + 1)) > c THEN sh ELSE ShiftDown(c, sh + 1)

MantissaShift(c) == IF c < 100 THEN 52 + ShiftUp(c, 0) ELSE 52 - ShiftDown(c, 0)

FloatRound2OfCents(c, d) ==
    LET x == (c * Cent) \div d
        r == ((c % 100) * Pow2Mod100(MantissaShift(c))) % 100
    IN  IF c = 0 \/ x % Cent # Cent \div 2 \/ r = 0 THEN Round2(x)
        ELSE IF r < 50 THEN (x \div Cent) * Cent
        ELSE (x \div Cent + 1) * Cent

Abs(v) == IF v < 0 THEN -v ELSE v

\* C1 (as claimed): a term-limited schedule (years limit below the
\* amortization) never has more than min(term, amortization) * p rows, p the
\* payments per year of its frequency.
C1_RowsStopAtTerm ==
    (call = "schedules" /\ years_limit < amort_years) =>
        \A n \in 1..Len(result) :
            Len(result[n]) <= Min(years_limit, amort_years) * Frequencies[n]

\* C2 (as claimed): for principal > 0, every schedule generated over the full
\* amortization with the payment from payments() ends with an Ending Balance
\* within one cent of zero.
C2_FullTermEndsAtZero ==
    (call = "schedules" /\ principal > 0 /\ years_limit = amort_years) =>
        \A n \in 1..Len(result) :
            Len(result[n]) > 0 => Last(result[n]).EndingBalance <= Cent

\* C3 (as claimed): accelerated_bi_weekly = round(monthly / 2, 2) and
\* accelerated_weekly = round(monthly / 4, 2), monthly being the 2-decimal
\* amount in the returned tuple.
C3_AccelFromReturnedMonthly ==
    pmts # <<>> =>
        /\ pmts[5] = FloatRound2OfCents(pmts[1] \div Cent, 2)
        /\ pmts[6] = FloatRound2OfCents(pmts[1] \div Cent, 4)

\* C3 (amended): the accelerated amounts are round(m / 2, 2) and
\* round(m / 4, 2) of the unrounded monthly annuity payment m; against the
\* returned 2-decimal monthly amount, twice the accelerated bi-weekly amount
\* is within one cent and four times the accelerated weekly amount within
\* two cents.
C3_AccelFromUnroundedMonthly ==
    pmts # <<>> =>
        LET m == MonthlyRaw(quoted_rate_percent, amort_years, principal)
        IN  /\ pmts[5] = Round2(m \div 2)
            /\ pmts[6] = Round2(m \div 4)
            /\ Abs(2 * pmts[5] - pmts[1]) <= Cent
            /\ Abs(4 * pmts[6] - pmts[1]) <= 2 * Cent

\* payments() returned an accelerated amount that is not the rounded half
\* or quarter of the returned monthly amount
C3_Witness ==
    /\ pmts # <<>>
    /\ principal > 0
    /\ \/ pmts[5] # FloatRound2OfCents(pmts[1] \div Cent, 2)
       \/ pmts[6] # FloatRound2OfCents(pmts[1] \div Cent, 4)

\* C4 (as claimed): within a schedule from schedules() with principal > 0,
\* Ending Balance never increases from a row to the next and each row starts
\* at the previous row's Ending Balance.
C4_BalanceMonotone ==
    (call = "schedules" /\ principal > 0) =>
        \A j \in 1..(Len(out) - 1) :
            /\ out[j + 1].EndingBalance <= out[j].EndingBalance
            /\ out[j + 1].StartingBalance = out[j].EndingBalance

\* C5 (as claimed): a call with invalid input (principal <= 0, years <= 0 or
\* term_years > amort_years) computes no payment and no schedule row, and a
\* direct _schedule call uses its years_limit unclamped.
InvalidInput ==
    \/ principal <= 0
    \/ amort_years <= 0
    \/ term_years <= 0
    \/ term_years > amort_years

C5_InvalidInputRejected ==
    /\ (call # "none" /\ InvalidInput) =>
           (pmts = <<>> /\ out = <<>> /\ result = <<>>)
    /\ (call = "_schedule") => nmax = years_limit * payments_per_year

\* C6: at a zero quoted rate the returned monthly payment is
\* round(principal / (amort_years * 12), 2), every row of the monthly
\* schedule shows zero interest, and all rows but the last show the same
\* principal reduction.
C6_ZeroRate ==
    (quoted_rate_percent = 0 /\ pmts # <<>>) =>
        /\ pmts[1] = Round2(principal \div (amort_years * 12))
        /\ \A j \in 1..Len(MonthlyRows) : MonthlyRows[j].Interest = 0
        /\ \A j, h \in 1..(Len(MonthlyRows) - 1) :
               Reduction(MonthlyRows[j]) = Reduction(MonthlyRows[h])

\* a finished zero-rate monthly schedule whose last row reduces the balance
\* by another amount than the rows before it
C6_Witness ==
    /\ quoted_rate_percent = 0
    /\ Len(result) >= 1
    /\ Len(result[1]) >= 3
    /\ Reduction(Last(result[1])) # Reduction(result[1][1])
    /\ Reduction(result[1][1]) = pmts[1]

\* C8: the number of rows of a schedule never exceeds
\* max(1, min(years_limit, amort_years)) * payments_per_year + 2, the loop
\* counter equals the number of rows, and Period runs 1, 2, 3, ... without
\* gaps; each iteration adds a row, so the loop ends.
RowBound(yl, ppy) == Max(1, Min(yl, amort_years)) * ppy + 2

Numbered(rows) == \A j \in 1..Len(rows) : rows[j].Period = j

C8_LoopBounded ==
    /\ k = Len(out)
    /\ Len(out) <= RowBound(years_limit, payments_per_year)
    /\ Numbered(out)
    /\ pc = "loop" => k <= nmax + CapMargin
    /\ \A n \in 1..Len(result) :
           /\ Numbered(result[n])
           /\ Len(result[n]) <=
                  RowBound(years_limit,
                           IF call = "schedules" THEN Frequencies[n]
                           ELSE payments_per_year)

\* a direct call whose payment never covers the interest ran into the cap:
\* the balance is above the principal and the schedule has the cap's length
C8_Witness ==
    /\ call = "_schedule"
    /\ pc = "done"
    /\ bal > principal
    /\ Len(out) = RowBound(years_limit, payments_per_year)

\* C9: in every iteration from a non-negative principal, if the scheduled
\* payment less the interest exceeds the starting balance, the effective
\* payment is interest + starting balance and the balance becomes zero;
\* otherwise the effective payment is the scheduled payment.  No balance is
\* negative and no payment exceeds starting balance plus interest.
C9_FinalPeriodClamp ==
    (k > 0 /\ principal >= 0) =>
        /\ (payment_amount - interest > start) =>
               (pay_eff = interest + start /\ bal = 0
                /\ out[k].EndingBalance = 0)
        /\ (payment_amount - interest <= start) => pay_eff = payment_amount
        /\ bal >= 0
        /\ pay_eff <= start + interest
        /\ \A j \in 1..Len(out) : out[j].EndingBalance >= 0

\* the clamp fired on a positive remaining balance
C9_Witness ==
    /\ k > 1
    /\ start > 0
    /\ payment_amount - interest > start
    /\ pay_eff < payment_amount
    /\ bal = 0

\* C10 (as claimed): when _schedule returns because the iteration cap was
\* reached with the balance still above the epsilon, it returns the rows
\* built so far and surfaces a diagnostic.
C10_CapDiagnosed ==
    (pc = "done" /\ call # "payments" /\ k = nmax + CapMargin /\ bal > Eps) =>
        (Last(result) = out /\ diagnostics # <<>>)

\* the scheduled payment of the n-th returned schedule
ScheduledPayment(n) == IF call = "schedules" THEN pmts[n] ELSE payment_amount

\* C11: the clamp fires at most once and only in the last row.  Every row
\* but the last shows the scheduled payment (rounded to 2 decimals); a row
\* whose effective payment is below the scheduled payment leaves the balance
\* at exactly zero and the loop condition false, so no row follows it; and
\* whenever another row is about to be emitted, the row before it paid the
\* full scheduled payment and carries a strictly positive balance.
C11_ClampOnlyInLastRow ==
    /\ \A j \in 1..(Len(out) - 1) : out[j].Payment = Round2(payment_amount)
    /\ (k > 0 /\ pay_eff < payment_amount) =>
           (bal = 0 /\ ~LoopCond(bal, k, nmax))
    /\ (pc = "loop" /\ k > 0 /\ LoopCond(bal, k, nmax)) =>
           (pay_eff = payment_amount /\ bal > 0)
    /\ \A n \in 1..Len(result) :
           \A j \in 1..(Len(result[n]) - 1) :
               result[n][j].Payment = Round2(ScheduledPayment(n))

\* a returned schedule of several rows whose last row alone was clamped: it
\* shows a smaller payment than the scheduled one and a zero balance
C11_Witness ==
    /\ pc = "done"
    /\ call = "schedules"
    /\ \E n \in 1..Len(result) :
           /\ Len(result[n]) >= 3
           /\ Last(result[n]).Payment < pmts[n]
           /\ Last(result[n]).Payment > 0
           /\ Last(result[n]).EndingBalance = 0
           /\ result[n][1].Payment = pmts[n]
====
